---- MODULE Spec2Model ----
(***************************************************************************)
(* SfeI2C, the I2C transport of the SparkFun u-blox GNSS library for       *)
(* STM32 (src/src/sfe_bus.cpp).  The object holds a bus handle and a       *)
(* device address; init binds them, and ping, available, writeBytes and    *)
(* readBytes each translate into at most one call of the STM32 HAL.        *)
(*                                                                         *)
(* The HAL is the environment: it answers every call with a status and,    *)
(* for a memory read, with the two bytes it leaves in the buffer.  The     *)
(* model keeps the list of HAL calls made (log) and the list of            *)
(* operations that returned, with their results (hist).                    *)
(***************************************************************************)
EXTENDS Integers, Sequences, FiniteSets, TLC

VARIABLES _i2cPort, _address, log, hist, fault

vars == <<_i2cPort, _address, log, hist, fault>>

(***************************************************************************)
(* Bounds of the model.                                                    *)
(***************************************************************************)
NumHandles == 2      \* distinct I2C_HandleTypeDef objects a caller may pass
MaxAddr == 1         \* addresses 0..MaxAddr are passed to init under Spec
MaxLen == 1          \* lengths 0..MaxLen are passed under Spec
MaxByte == 0         \* register bytes 0..MaxByte are answered under Spec
MaxStatus == 1       \* HAL statuses 0..MaxStatus (HAL_OK and the others)
MaxOps == 3          \* operations per behaviour under Spec

(***************************************************************************)
(* Program constants.                                                      *)
(***************************************************************************)
NULL == 0                         \* nullptr
HAL_OK == 0
I2C_MEMADD_SIZE_8BIT == 1
HAL_MAX_DELAY == -1               \* 0xFFFFFFFF, all 32 bits set: wait without limit
UINT8_MAX == 255
UINT16_MOD == 65536

Handles == 1..NumHandles
Addresses == 0..MaxAddr
Lengths == 0..MaxLen
Bytes == 0..MaxByte
Uint8 == 0..UINT8_MAX
Statuses == 0..MaxStatus

\* The outcome of a HAL call that never returns (hard fault on the null handle).
HardFault == MaxStatus + 1

(***************************************************************************)
(* What a HAL call can do.  With a valid handle it returns a status.  With *)
(* the null handle the HAL dereferences a null pointer: the behaviour is   *)
(* undefined, so it may return any status or never return at all.          *)
(***************************************************************************)
Outcomes(handle) ==
  IF handle = NULL THEN Statuses \cup {HardFault} ELSE Statuses

\* One entry of the HAL's call log; op is the index of the operation making it.
Call(fn, reg, regw, len, trials, timeout, out, data) ==
  [op |-> Len(hist) + 1, fn |-> fn, handle |-> _i2cPort, addr |-> _address,
   reg |-> reg, regw |-> regw, len |-> len, trials |-> trials,
   timeout |-> timeout, st |-> out, data |-> data]

\* One entry of the list of returned operations.
Op(name, h, a, len, ret) ==
  [op |-> name, h |-> h, a |-> a, len |-> len, ret |-> ret]

\* The operation returns rec, unless the HAL call under it never returned.
Return(out, rec) ==
  IF out = HardFault
  THEN fault' = TRUE /\ hist' = hist
  ELSE fault' = fault /\ hist' = Append(hist, rec)

(***************************************************************************)
(* C integer operators of available().                                     *)
(***************************************************************************)
RECURSIVE BitOr(_, _)
BitOr(x, y) ==
  IF x = 0 THEN y
  ELSE IF y = 0 THEN x
  ELSE (IF x % 2 = 1 \/ y % 2 = 1 THEN 1 ELSE 0) + 2 * BitOr(x \div 2, y \div 2)

RECURSIVE ShiftLeft(_, _)
ShiftLeft(x, n) == IF n = 0 THEN x ELSE ShiftLeft(2 * x, n - 1)

\* Little-endian combination of the two register bytes.
bytesAvailable_swapped(msb, lsb) == BitOr(ShiftLeft(lsb, 8), msb) % UINT16_MOD

\* bytesAvailable = (uint16_t)msb << 8 | lsb;
bytesAvailable(msb, lsb) == BitOr(ShiftLeft(msb, 8), lsb) % UINT16_MOD

(***************************************************************************)
(* SfeI2C::SfeI2C                                                          *)
(***************************************************************************)
Init ==
  /\ _i2cPort = NULL
  /\ _address = 0
  /\ log = <<>>
  /\ hist = <<>>
  /\ fault = FALSE

(***************************************************************************)
(* SfeI2C::init                                                            *)
(***************************************************************************)
\* init that takes the handle of every call.
init_overwrite(i2cHandle, address) ==
  /\ ~fault
  /\ _i2cPort' = i2cHandle
  /\ _address' = address
  /\ hist' = Append(hist, Op("init", i2cHandle, address, 0, TRUE))
  /\ UNCHANGED <<log, fault>>

\* init that reports whether it took the handle.
init_reports(i2cHandle, address) ==
  /\ ~fault
  /\ _i2cPort' = IF _i2cPort = NULL THEN i2cHandle ELSE _i2cPort
  /\ _address' = address
  /\ hist' = Append(hist, Op("init", i2cHandle, address, 0, _i2cPort = NULL))
  /\ UNCHANGED <<log, fault>>

init(i2cHandle, address) ==
  /\ ~fault
  /\ _i2cPort' = IF _i2cPort = NULL THEN i2cHandle ELSE _i2cPort
  /\ _address' = address
  /\ hist' = Append(hist, Op("init", i2cHandle, address, 0, TRUE))
  /\ UNCHANGED <<log, fault>>

(***************************************************************************)
(* SfeI2C::ping                                                            *)
(***************************************************************************)
\* ping with the status test inverted.
ping_inverted ==
  /\ ~fault
  /\ IF _i2cPort = NULL
     THEN /\ hist' = Append(hist, Op("ping", NULL, 0, 0, FALSE))
          /\ UNCHANGED <<log, fault>>
     ELSE \E ret \in Outcomes(_i2cPort) :
            /\ log' = Append(log, Call("HAL_I2C_IsDeviceReady", 0, 0, 0, 3, 5, ret, <<>>))
            /\ Return(ret, Op("ping", NULL, 0, 0, ret # HAL_OK))
  /\ UNCHANGED <<_i2cPort, _address>>

ping ==
  /\ ~fault
  /\ IF _i2cPort = NULL
     THEN /\ hist' = Append(hist, Op("ping", NULL, 0, 0, FALSE))
          /\ UNCHANGED <<log, fault>>
     ELSE \E ret \in Outcomes(_i2cPort) :
            /\ log' = Append(log, Call("HAL_I2C_IsDeviceReady", 0, 0, 0, 3, 5, ret, <<>>))
            /\ Return(ret, Op("ping", NULL, 0, 0, ret = HAL_OK))
  /\ UNCHANGED <<_i2cPort, _address>>

(***************************************************************************)
(* SfeI2C::available; msb and lsb are the bytes the HAL leaves in data[0]  *)
(* and data[1] (on a failure, whatever the buffer holds).                  *)
(***************************************************************************)
available(msb, lsb) ==
  /\ ~fault
  /\ IF _i2cPort = NULL
     THEN /\ hist' = Append(hist, Op("available", NULL, 0, 0, 0))
          /\ UNCHANGED <<log, fault>>
     ELSE \E ret \in Outcomes(_i2cPort) :
            /\ log' = Append(log, Call("HAL_I2C_Mem_Read", 253, I2C_MEMADD_SIZE_8BIT,
                                       2, 0, HAL_MAX_DELAY, ret, <<msb, lsb>>))
            /\ Return(ret, Op("available", NULL, 0, 0,
                              IF ret # HAL_OK THEN 0 ELSE bytesAvailable(msb, lsb)))
  /\ UNCHANGED <<_i2cPort, _address>>

(***************************************************************************)
(* SfeI2C::writeBytes                                                      *)
(***************************************************************************)
\* writeBytes that returns the length whatever the status.
writeBytes_unchecked(length) ==
  /\ ~fault
  /\ IF length = 0
     THEN /\ hist' = Append(hist, Op("writeBytes", NULL, 0, length, 0))
          /\ UNCHANGED <<log, fault>>
     ELSE \E ret \in Outcomes(_i2cPort) :
            /\ log' = Append(log, Call("HAL_I2C_Master_Transmit", 0, 0, length, 0,
                                       HAL_MAX_DELAY, ret, <<>>))
            /\ Return(ret, Op("writeBytes", NULL, 0, length, length))
  /\ UNCHANGED <<_i2cPort, _address>>

writeBytes(length) ==
  /\ ~fault
  /\ IF length = 0
     THEN /\ hist' = Append(hist, Op("writeBytes", NULL, 0, length, 0))
          /\ UNCHANGED <<log, fault>>
     ELSE \E ret \in Outcomes(_i2cPort) :
            /\ log' = Append(log, Call("HAL_I2C_Master_Transmit", 0, 0, length, 0,
                                       HAL_MAX_DELAY, ret, <<>>))
            /\ Return(ret, Op("writeBytes", NULL, 0, length,
                              IF ret # HAL_OK THEN 0 ELSE length))
  /\ UNCHANGED <<_i2cPort, _address>>

(***************************************************************************)
(* SfeI2C::readBytes                                                       *)
(***************************************************************************)
\* readBytes without the zero-length test.
readBytes_nozero(length) ==
  /\ ~fault
  /\ \E ret \in Outcomes(_i2cPort) :
       /\ log' = Append(log, Call("HAL_I2C_Master_Receive", 0, 0, length, 0,
                                  HAL_MAX_DELAY, ret, <<>>))
       /\ Return(ret, Op("readBytes", NULL, 0, length,
                         IF ret # HAL_OK THEN 0 ELSE length))
  /\ UNCHANGED <<_i2cPort, _address>>

\* readBytes that tries the transfer a second time after a failure.
readBytes_retry(length) ==
  /\ ~fault
  /\ IF length = 0
     THEN /\ hist' = Append(hist, Op("readBytes", NULL, 0, length, 0))
          /\ UNCHANGED <<log, fault>>
     ELSE \E ret \in Outcomes(_i2cPort) :
            IF ret = HAL_OK \/ ret = HardFault
            THEN /\ log' = Append(log, Call("HAL_I2C_Master_Receive", 0, 0, length, 0,
                                            HAL_MAX_DELAY, ret, <<>>))
                 /\ Return(ret, Op("readBytes", NULL, 0, length, length))
            ELSE \E ret2 \in Outcomes(_i2cPort) :
                   /\ log' = log \o
                        << Call("HAL_I2C_Master_Receive", 0, 0, length, 0,
                                HAL_MAX_DELAY, ret, <<>>),
                           Call("HAL_I2C_Master_Receive", 0, 0, length, 0,
                                HAL_MAX_DELAY, ret2, <<>>) >>
                   /\ Return(ret2, Op("readBytes", NULL, 0, length,
                                      IF ret2 # HAL_OK THEN 0 ELSE length))
  /\ UNCHANGED <<_i2cPort, _address>>

readBytes(length) ==
  /\ ~fault
  /\ IF length = 0
     THEN /\ hist' = Append(hist, Op("readBytes", NULL, 0, length, 0))
          /\ UNCHANGED <<log, fault>>
     ELSE \E ret \in Outcomes(_i2cPort) :
            /\ log' = Append(log, Call("HAL_I2C_Master_Receive", 0, 0, length, 0,
                                       HAL_MAX_DELAY, ret, <<>>))
            /\ Return(ret, Op("readBytes", NULL, 0, length,
                              IF ret # HAL_OK THEN 0 ELSE length))
  /\ UNCHANGED <<_i2cPort, _address>>

(***************************************************************************)
(* Spec: a caller makes up to MaxOps calls, in any order, with small       *)
(* arguments.                                                              *)
(***************************************************************************)
More == Len(hist) < MaxOps

DoInit == More /\ \E h \in Handles, a \in Addresses : init(h, a)
DoPing == More /\ ping
DoAvailable == More /\ \E msb \in Bytes, lsb \in Bytes : available(msb, lsb)
DoWrite == More /\ \E length \in Lengths : writeBytes(length)
DoRead == More /\ \E length \in Lengths : readBytes(length)

Next == DoInit \/ DoPing \/ DoAvailable \/ DoWrite \/ DoRead

Spec == Init /\ [][Next]_vars

(***************************************************************************)
(* SpecWide: a caller binds at most once and then makes one transfer call  *)
(* with any uint8_t length, the HAL answering with any two bytes.          *)
(***************************************************************************)
Fresh == hist = <<>>
NoTransferYet == \A i \in 1..Len(hist) : hist[i].op = "init"

WideInit == Fresh /\ \E h \in Handles : init(h, 66)
WidePing == NoTransferYet /\ ping
WideAvailable == NoTransferYet /\ \E msb \in Uint8, lsb \in Uint8 : available(msb, lsb)
WideWrite == NoTransferYet /\ \E length \in Uint8 : writeBytes(length)
WideRead == NoTransferYet /\ \E length \in Uint8 : readBytes(length)

NextWide == WideInit \/ WidePing \/ WideAvailable \/ WideWrite \/ WideRead

SpecWide == Init /\ [][NextWide]_vars

(***************************************************************************)
(* SpecE2E: the session init(h, 0x42); ping; writeBytes(buf, 8);           *)
(* available; readBytes(buf, 12), the HAL answering as it likes.           *)
(***************************************************************************)
E2EInit == Len(hist) = 0 /\ \E h \in Handles : init(h, 66)
E2EPing == Len(hist) = 1 /\ ping
E2EWrite == Len(hist) = 2 /\ writeBytes(8)
E2EAvailable == Len(hist) = 3 /\ \E msb \in Bytes, lsb \in Uint8 : available(msb, lsb)
E2ERead == Len(hist) = 4 /\ readBytes(12)

NextE2E == E2EInit \/ E2EPing \/ E2EWrite \/ E2EAvailable \/ E2ERead

SpecE2E == Init /\ [][NextE2E]_vars

(***************************************************************************)
(* Vocabulary of the properties, all read off the two lists.               *)
(***************************************************************************)
Ops == 1..Len(hist)
Transfers == {"ping", "available", "writeBytes", "readBytes"}

\* The init calls among the first n operations.
Binds(n) == SelectSeq(SubSeq(hist, 1, n), LAMBDA r : r.op = "init")
\* Operation i was called on an instance init had been called on before.
BoundBefore(i) == Binds(i - 1) # <<>>
FirstHandle(i) == Head(Binds(i - 1)).h
LastAddress(i) == Binds(i - 1)[Len(Binds(i - 1))].a
\* The HAL calls made by operation i.
CallsOf(i) == SelectSeq(log, LAMBDA e : e.op = i)
Sentinel(name) == IF name = "ping" THEN FALSE ELSE 0
HalOf(name) ==
  CASE name = "ping" -> "HAL_I2C_IsDeviceReady"
    [] name = "available" -> "HAL_I2C_Mem_Read"
    [] name = "writeBytes" -> "HAL_I2C_Master_Transmit"
    [] name = "readBytes" -> "HAL_I2C_Master_Receive"
\* Operation i is a transfer that is meant to reach the bus.
Reaching(i) ==
  /\ hist[i].op \in Transfers
  /\ hist[i].op \in {"writeBytes", "readBytes"} => hist[i].len >= 1
\* The step is a call of init that returned.
InitStep == Len(hist') = Len(hist) + 1 /\ hist'[Len(hist')].op = "init"

(***************************************************************************)
(* C1.  Before any init, ping, available, writeBytes and readBytes (of any *)
(* length from 1 on) return their sentinel (false, 0, 0, 0) and make no    *)
(* HAL call, so the null handle is never passed to the HAL.                *)
(***************************************************************************)
C1_UnboundMakesNoCall ==
  /\ \A i \in Ops :
       (Reaching(i) /\ ~BoundBefore(i)) =>
         (hist[i].ret = Sentinel(hist[i].op) /\ CallsOf(i) = <<>>)
  /\ \A k \in 1..Len(log) : log[k].handle # NULL

(***************************************************************************)
(* C2.  After one or more init calls the stored handle is the handle of    *)
(* the first and the stored address the address of the last, and every HAL *)
(* call of a later operation is made with that handle and that address.    *)
(***************************************************************************)
C2_FirstHandleLastAddress ==
  /\ BoundBefore(Len(hist) + 1) =>
       (/\ _i2cPort = FirstHandle(Len(hist) + 1)
        /\ _address = LastAddress(Len(hist) + 1))
  /\ \A k \in 1..Len(log) :
       BoundBefore(log[k].op) =>
         (/\ log[k].handle = FirstHandle(log[k].op)
          /\ log[k].addr = LastAddress(log[k].op))

\* A HAL call made after two init calls that differ in handle and address.
C2_Witness ==
  \E k \in 1..Len(log) :
    LET b == Binds(log[k].op - 1) IN
      /\ Len(b) >= 2
      /\ b[1].h # b[Len(b)].h
      /\ b[1].a # b[Len(b)].a

(***************************************************************************)
(* C3.  On a bound instance writeBytes and readBytes of a length L in      *)
(* 1..255 return L when the HAL reports HAL_OK and 0 when it reports any   *)
(* other status, and nothing in between.                                   *)
(***************************************************************************)
C3_AllOrNothing ==
  \A i \in Ops :
    (hist[i].op \in {"writeBytes", "readBytes"} /\ hist[i].len >= 1 /\ BoundBefore(i)) =>
      \A k \in 1..Len(log) :
        log[k].op = i =>
          hist[i].ret = IF log[k].st = HAL_OK THEN hist[i].len ELSE 0

\* A bound writeBytes of 255 bytes that returned 255.
C3_Witness ==
  \E i \in Ops :
    /\ BoundBefore(i)
    /\ hist[i].op = "writeBytes"
    /\ hist[i].len = 255
    /\ hist[i].ret = 255

(***************************************************************************)
(* C4.  Bound or not, writeBytes and readBytes of length 0 return 0 and    *)
(* make no HAL call.                                                       *)
(***************************************************************************)
C4_ZeroLengthIsNoOp ==
  \A i \in Ops :
    (hist[i].op \in {"writeBytes", "readBytes"} /\ hist[i].len = 0) =>
      (hist[i].ret = 0 /\ CallsOf(i) = <<>>)

\* A zero-length writeBytes before init and a zero-length readBytes after it.
C4_Witness ==
  \E i, j \in Ops :
    /\ ~BoundBefore(i) /\ hist[i].op = "writeBytes" /\ hist[i].len = 0
    /\ BoundBefore(j) /\ hist[j].op = "readBytes" /\ hist[j].len = 0

(***************************************************************************)
(* C5.  On a bound instance available makes one HAL_I2C_Mem_Read of 2      *)
(* bytes at register 0xFD with 8-bit register addresses; it returns        *)
(* msb * 256 + lsb when the read reports HAL_OK, for all bytes msb and     *)
(* lsb, and 0 when it reports anything else, whatever the buffer holds.    *)
(***************************************************************************)
C5_BigEndianCount ==
  \A i \in Ops :
    (hist[i].op = "available" /\ BoundBefore(i)) =>
      LET c == CallsOf(i) IN
        /\ Len(c) = 1
        /\ c[1].fn = "HAL_I2C_Mem_Read"
        /\ c[1].reg = 253
        /\ c[1].regw = I2C_MEMADD_SIZE_8BIT
        /\ c[1].len = 2
        /\ hist[i].ret \in 0..65535
        /\ hist[i].ret = IF c[1].st = HAL_OK
                         THEN c[1].data[1] * 256 + c[1].data[2]
                         ELSE 0

\* The registers held (0xFF, 0xFF) and available returned 65535.
C5_Witness ==
  \E i \in Ops :
    /\ hist[i].op = "available"
    /\ BoundBefore(i)
    /\ CallsOf(i)[1].data = <<255, 255>>
    /\ hist[i].ret = 65535

(***************************************************************************)
(* C6.  ping returns true exactly when the instance is bound and           *)
(* HAL_I2C_IsDeviceReady, called with the stored address, 3 trials and     *)
(* timeout 5, reports HAL_OK; before any init it returns false.            *)
(***************************************************************************)
C6_PingIffReady ==
  \A i \in Ops :
    hist[i].op = "ping" =>
      /\ BoundBefore(i) =>
           LET c == CallsOf(i) IN
             /\ Len(c) = 1
             /\ c[1].fn = "HAL_I2C_IsDeviceReady"
             /\ c[1].addr = LastAddress(i)
             /\ c[1].trials = 3
             /\ c[1].timeout = 5
      /\ hist[i].ret = (BoundBefore(i) /\ \E k \in 1..Len(log) :
                                              log[k].op = i /\ log[k].st = HAL_OK)

\* A ping that returned true and a later one that returned false, both bound.
C6_Witness ==
  \E i, j \in Ops :
    /\ i < j
    /\ BoundBefore(i)
    /\ hist[i].op = "ping" /\ hist[i].ret = TRUE
    /\ hist[j].op = "ping" /\ hist[j].ret = FALSE

(***************************************************************************)
(* C7.  init(h, 0x42); ping; writeBytes(buf, 8); available;                *)
(* readBytes(buf, 12) against a HAL that always reports HAL_OK and whose   *)
(* count registers hold 12 returns true, 8, 12, 12, and the HAL sees, in   *)
(* this order and with handle h and address 0x42, the presence check, one  *)
(* transmit of 8 bytes, one memory read of 2 bytes at 0xFD and one receive *)
(* of 12 bytes, and nothing else.                                          *)
(***************************************************************************)
AlwaysCompletes ==
  \A k \in 1..Len(log) :
    /\ log[k].st = HAL_OK
    /\ log[k].fn = "HAL_I2C_Mem_Read" => log[k].data = <<0, 12>>

C7_EndToEnd ==
  (Len(hist) = 5 /\ AlwaysCompletes) =>
    /\ <<hist[2].ret, hist[3].ret, hist[4].ret, hist[5].ret>> = <<TRUE, 8, 12, 12>>
    /\ Len(log) = 4
    /\ \A k \in 1..4 : log[k].handle = hist[1].h /\ log[k].addr = 66 /\ log[k].op = k + 1
    /\ log[1].fn = "HAL_I2C_IsDeviceReady"
    /\ log[2].fn = "HAL_I2C_Master_Transmit" /\ log[2].len = 8
    /\ log[3].fn = "HAL_I2C_Mem_Read" /\ log[3].reg = 253 /\ log[3].len = 2
    /\ log[4].fn = "HAL_I2C_Master_Receive" /\ log[4].len = 12

\* The session ran to its end against such a HAL.
C7_Witness == Len(hist) = 5 /\ AlwaysCompletes /\ hist[5].op = "readBytes"

(***************************************************************************)
(* C8.  The instance starts with a null handle and address 0; the first    *)
(* init gives it a handle; from then on no call, whatever its arguments    *)
(* and whatever the HAL answers, changes the handle, and ping, available,  *)
(* writeBytes and readBytes do not change the address.                     *)
(***************************************************************************)
C8_Step ==
  /\ (_i2cPort = NULL /\ InitStep) => _i2cPort' # NULL
  /\ _i2cPort # NULL => _i2cPort' = _i2cPort
  /\ (_i2cPort # NULL /\ ~InitStep) => _address' = _address

C8_BoundForGood == (_i2cPort = NULL /\ _address = 0) /\ [][C8_Step]_vars

\* Bound, then a failed transfer, then an init with another handle.
C8_Witness ==
  /\ Len(hist) = 3
  /\ hist[1].op = "init"
  /\ hist[2].op \in Transfers /\ CallsOf(2) # <<>> /\ CallsOf(2)[1].st # HAL_OK
  /\ hist[3].op = "init" /\ hist[3].h # hist[1].h
  /\ _i2cPort = hist[1].h

(***************************************************************************)
(* C9.  init returns true and makes no HAL call, and an init that repeats  *)
(* the handle and address of the init just before it changes neither the   *)
(* stored handle nor the stored address.                                   *)
(***************************************************************************)
C9_Step ==
  InitStep =>
    /\ hist'[Len(hist')].ret = TRUE
    /\ log' = log
    /\ (/\ hist # <<>>
        /\ hist[Len(hist)].op = "init"
        /\ hist[Len(hist)].h = hist'[Len(hist')].h
        /\ hist[Len(hist)].a = hist'[Len(hist')].a)
       => (_i2cPort' = _i2cPort /\ _address' = _address)

C9_InitIdempotent == [][C9_Step]_vars

\* The same init twice in a row on an instance bound to another handle.
C9_Witness ==
  \E i \in Ops :
    /\ i >= 2 /\ i < Len(hist)
    /\ hist[i].op = "init" /\ hist[i + 1].op = "init"
    /\ hist[i].h = hist[i + 1].h /\ hist[i].a = hist[i + 1].a
    /\ _i2cPort # hist[i].h

(***************************************************************************)
(* C10.  On a bound instance every ping, available, writeBytes and         *)
(* readBytes (the last two of a length L in 1..255) makes exactly one HAL  *)
(* call, of its own kind and for writeBytes and readBytes of exactly L     *)
(* bytes; when that call fails the operation returns its sentinel without  *)
(* a second call.                                                          *)
(***************************************************************************)
C10_OneCallNoRetry ==
  \A i \in Ops :
    (Reaching(i) /\ BoundBefore(i)) =>
      LET c == CallsOf(i) IN
        /\ Len(c) = 1
        /\ c[1].fn = HalOf(hist[i].op)
        /\ hist[i].op \in {"writeBytes", "readBytes"} => c[1].len = hist[i].len
        /\ c[1].st # HAL_OK => hist[i].ret = Sentinel(hist[i].op)

\* A bound readBytes of 255 bytes whose one HAL call failed.
C10_Witness ==
  \E i \in Ops :
    /\ BoundBefore(i)
    /\ hist[i].op = "readBytes" /\ hist[i].len = 255
    /\ Len(CallsOf(i)) = 1 /\ CallsOf(i)[1].st # HAL_OK
    /\ hist[i].ret = 0

====
